---- MODULE Spec2Model ----
(***************************************************************************)
(* A model of transcribo: the Scriber (internal/scriber) that runs one     *)
(* file through read -> ffmpeg -> whisper -> publish, and the callers of   *)
(* Scriber.Process.  Strings are sequences of one-character strings.       *)
(***************************************************************************)
EXTENDS Integers, Sequences, FiniteSets, TLC

\* ------------------------------------------------------------------ bounds

\* Number of goroutines that call Scriber.Process.
NumProcs == 2

\* Number of files the user selects in one run of the application.
MaxFiles == 1

\* Longest generated file name (in characters) of the name enumeration.
MaxNameLen == 4

\* Most files that are selected when the user starts a batch.
MaxBatchFiles == 6

\* ------------------------------------------------------- program constants

\* make(chan Output, 10)
ChanCap == 10

\* context.WithTimeout(ctx, 5*time.Minute), in minutes
TimeoutMinutes == 5

\* make(chan progressStatus, 10)
StatusCap == 10

Procs == 1..NumProcs

\* ----------------------------------------------------------------- strings

Chars == {"a", ".", "/"}

\* os.IsPathSeparator on the platforms the application targets
IsPathSeparator(c) == c = "/"

RECURSIVE ExtScan(_, _)
\* the loop of filepath.Ext: i runs from the last character down to the
\* first, stops at a path separator, and returns path[i:] at the first dot
ExtScan(path, i) ==
    IF i < 1 \/ IsPathSeparator(path[i]) THEN <<>>
    ELSE IF path[i] = "." THEN SubSeq(path, i, Len(path))
    ELSE ExtScan(path, i - 1)

\* filepath.Ext(path)
Ext(path) == ExtScan(path, Len(path))

RECURSIVE IndexFrom(_, _, _)
\* strings.Index(s, sub) searched from position i (1-based); 0 when absent
IndexFrom(s, sub, i) ==
    IF i + Len(sub) - 1 > Len(s) THEN 0
    ELSE IF SubSeq(s, i, i + Len(sub) - 1) = sub THEN i
    ELSE IndexFrom(s, sub, i + 1)

RECURSIVE ReplaceLoop(_, _, _, _, _)
\* the copy loop of strings.Replace over the rest s of the string: an empty
\* old matches at the very beginning and then after each character
ReplaceLoop(s, old, new, n, first) ==
    IF n = 0 THEN s
    ELSE IF old = <<>> THEN
        IF first THEN new \o ReplaceLoop(s, old, new, n - 1, FALSE)
        ELSE IF s = <<>> THEN s
        ELSE <<Head(s)>> \o new \o ReplaceLoop(Tail(s), old, new, n - 1, FALSE)
    ELSE LET j == IndexFrom(s, old, 1) IN
        IF j = 0 THEN s
        ELSE SubSeq(s, 1, j - 1) \o new
             \o ReplaceLoop(SubSeq(s, j + Len(old), Len(s)), old, new, n - 1, FALSE)

\* strings.Replace(s, old, new, n) for n >= 0
Replace(s, old, new, n) ==
    IF old = new \/ n = 0 THEN s ELSE ReplaceLoop(s, old, new, n, TRUE)

\* Output.Name as Process builds it:
\* strings.Replace(in.Name(), filepath.Ext(in.Name()), "."+in.OutputType(), 1)
OutputName(name, outputType) ==
    Replace(name, Ext(name), <<".">> \o outputType, 1)

\* ------------------------------------------------------------------- values

\* a nil error, and fmt.Errorf("<msg>: %w", cause): the wrapped cause stays
\* reachable (errors.Is(err, cause))
Nil == [msg |-> "nil", cause |-> "nil"]

ErrorfWithoutWrap(msg, cause) == [msg |-> msg, cause |-> "none"]

Errorf(msg, cause) == [msg |-> msg, cause |-> cause]

NoInput == [name |-> <<>>, outputType |-> <<>>, language |-> "", data |-> <<"none", 0>>]

NoOutput == [Name |-> <<>>, Text |-> <<>>]

NoStatus == [filename |-> <<>>, stage |-> "", err |-> Nil]

\* an entry of starts: goroutine p entered Process for the input called name
Started(p, name) == [p |-> p, name |-> name]

\* an entry of sends: goroutine p sent out on resultsCh
Published(p, out) == [p |-> p, out |-> out]

\* an entry of blog: what processFiles did for the file at index file of its
\* range loop: sent a status, called Process, or got err back from Process
\* (published tells whether that call had sent its Output)
BatchEvent(ev, file, e, published) ==
    [ev |-> ev, file |-> file, err |-> e, published |-> published]

\* ffmpeg's WAV for the bytes on its standard input
Transcode(bytes) == <<"wav", bytes>>

\* the transcript the backend returns for an audio payload in a format
Transcript(audio, format) == <<"text", audio, format>>

FileIds == 1..(IF MaxFiles > MaxBatchFiles THEN MaxFiles ELSE MaxBatchFiles)

StreamIds == {<<"call", p>> : p \in Procs} \cup {<<"file", k>> : k \in FileIds}

FreshStream(bad, bytes) ==
    [bad |-> bad, bytes |-> bytes, drained |-> FALSE, closes |-> 0]

\* -------------------------------------------------------------------- state

VARIABLES
    todo,         \* per goroutine: the inputs it has still to hand to Process
    pc,           \* per goroutine: where its Process call stands
    in,           \* Process's argument in
    data,         \* Process's local data (the bytes io.ReadAll returned)
    outBuf,       \* Process's local outBuf (ffmpeg's standard output)
    text,         \* Process's local text (the backend's answer)
    err,          \* what Process returned (Nil or an error)
    ctxErr,       \* ctx.Err() of the context made by context.WithTimeout
    elapsed,      \* minutes the call's backend call has been running
    streams,      \* the io.ReadClosers behind Input.Data()
    resultsCh,    \* Scriber.resultsCh: the buffered Outputs
    received,     \* what consumers of Collect() have received, in order
    cancelled,    \* whether the caller's context has been cancelled
    placed,       \* per call: the Outputs it has placed on resultsCh
    failed,       \* per call: the step that failed ("none" while none has)
    backendCalls, \* per call: invocations of TranscribeAudio
    cancelSeen,   \* per call: the caller's cancel came while the backend ran
    appState,     \* where the program stands: in main, "running", "closing"
                  \* (window.Close() called), "exited", or a panic's message
    uiPc,         \* where the handler running on the UI event loop stands
    uiArg,        \* the argument of that handler (a file, a name)
    selectedFiles,\* App.selectedFiles
    nextFile,     \* files selected so far
    fileRows,     \* the names shown in components.fileList
    processVisible, \* whether components.processContainer is shown
    progressShown,  \* whether components.progressBar is shown
    bpc,          \* per goroutine: where its processFiles stands
    bidx,         \* processFiles: index of the file of the range loop
    bfiles,       \* processFiles: the slice the range loop iterates
    muReaders,    \* App.mu: the goroutines holding the read lock
    statusCh,     \* components.statusCh: the buffered statuses
    statusClosed, \* whether components.statusCh is closed
    hpc,          \* where handleStatus stands
    hstatus,      \* handleStatus: the status it received
    statusLabel,  \* the text of components.statusLabel
    resultsList,  \* the "Completed" labels of components.resultsList
    dialogs,      \* error dialogs shown by updateStatus
    handed,       \* per selected file: Process calls given its data stream
    starts,       \* the Process calls entered, in order
    sends,        \* the sends on resultsCh, in order
    blog,         \* per processFiles: its sends and Process calls, in order
    apiKey,       \* the value of OPENAI_API_KEY in the environment
    resultsClosed \* whether Scriber.resultsCh is closed

frameVars == <<pc, in, data, outBuf, text, err, ctxErr, elapsed>>
ghostVars == <<placed, failed, backendCalls, cancelSeen>>
uiVars == <<uiPc, uiArg, selectedFiles, nextFile, fileRows, processVisible, progressShown>>
batchVars == <<bpc, bidx, bfiles, muReaders, handed, blog>>
statusVars == <<statusCh, statusClosed, hpc, hstatus, statusLabel, resultsList, dialogs>>
fixedVars == <<apiKey, resultsClosed>>
appVars == <<appState, fixedVars, uiVars, batchVars, statusVars>>
vars == <<todo, starts, sends, frameVars, streams, resultsCh, received, cancelled, ghostVars, appVars>>

\* ------------------------------------------------------------ Input, stream

\* scriberInput.Data(): every call returns the same stream of the input
Data(input) == input.data

\* io.ReadAll on a stream: an error for a failing reader, else what is left
\* of the stream
ReadAll(stream) ==
    IF stream.bad THEN [ok |-> FALSE, bytes |-> <<>>]
    ELSE [ok |-> TRUE, bytes |-> IF stream.drained THEN <<>> ELSE stream.bytes]

\* what io.ReadAll can give call p: two calls reading one bytes.Reader at the
\* same time race, and each may get all, a part or nothing of what is left
ReadOutcomes(p) ==
    LET r == ReadAll(streams[Data(in[p])])
        racing == \E q \in Procs \ {p} : pc[q] = "read" /\ Data(in[q]) = Data(in[p])
    IN IF r.ok /\ racing /\ r.bytes # <<>>
       THEN {r, [ok |-> TRUE, bytes |-> <<>>], [ok |-> TRUE, bytes |-> <<Head(r.bytes)>>]}
       ELSE {r}

\* the streams after in.Data().Close()
Close(id) == [streams EXCEPT ![id].closes = @ + 1]

\* the deferred calls of a Process call that got past line 57, run at its
\* return: cancel() when registered, then in.Data().Close()
RunDefers(p) == Close(Data(in[p]))

\* the parent of the context made at line 81: the caller's ctx
TimeoutCtxParentBackground == "background"

TimeoutCtxParent == "caller"

\* ------------------------------------------------------------------ Process

\* goroutine p enters s.Process(ctx, input): a new frame
Enter(p, input) ==
    /\ in' = [in EXCEPT ![p] = input]
    /\ pc' = [pc EXCEPT ![p] = "read"]
    /\ data' = [data EXCEPT ![p] = <<>>]
    /\ outBuf' = [outBuf EXCEPT ![p] = <<>>]
    /\ text' = [text EXCEPT ![p] = <<>>]
    /\ err' = [err EXCEPT ![p] = Nil]
    /\ ctxErr' = [ctxErr EXCEPT ![p] = "none"]
    /\ elapsed' = [elapsed EXCEPT ![p] = 0]
    /\ placed' = [placed EXCEPT ![p] = <<>>]
    /\ failed' = [failed EXCEPT ![p] = "none"]
    /\ backendCalls' = [backendCalls EXCEPT ![p] = 0]
    /\ cancelSeen' = [cancelSeen EXCEPT ![p] = FALSE]
    /\ starts' = Append(starts, Started(p, input.name))

\* the caller has taken what Process returned: the frame of the call is gone
Leave(p) ==
    /\ in' = [in EXCEPT ![p] = NoInput]
    /\ pc' = [pc EXCEPT ![p] = "idle"]
    /\ data' = [data EXCEPT ![p] = <<>>]
    /\ outBuf' = [outBuf EXCEPT ![p] = <<>>]
    /\ text' = [text EXCEPT ![p] = <<>>]
    /\ err' = [err EXCEPT ![p] = Nil]
    /\ ctxErr' = [ctxErr EXCEPT ![p] = "none"]
    /\ elapsed' = [elapsed EXCEPT ![p] = 0]
    /\ placed' = [placed EXCEPT ![p] = <<>>]
    /\ failed' = [failed EXCEPT ![p] = "none"]
    /\ backendCalls' = [backendCalls EXCEPT ![p] = 0]
    /\ cancelSeen' = [cancelSeen EXCEPT ![p] = FALSE]

\* a caller invokes s.Process(ctx, in) with its next input, a stream of its own
Call(p) ==
    /\ pc[p] \in {"idle", "returned"}
    /\ todo[p] # <<>>
    /\ LET i == Head(todo[p]) IN
        /\ Enter(p, [name |-> i.name, outputType |-> i.outputType,
                     language |-> i.language, data |-> <<"call", p>>])
        /\ streams' = [streams EXCEPT ![<<"call", p>>] = FreshStream(i.bad, i.bytes)]
    /\ todo' = [todo EXCEPT ![p] = Tail(@)]
    /\ UNCHANGED <<sends, resultsCh, received, cancelled>>
    /\ UNCHANGED appVars

\* data, err := io.ReadAll(in.Data()); on an error return it, else
\* defer in.Data().Close()
ReadInput(p) ==
    /\ pc[p] = "read"
    /\ \E r \in ReadOutcomes(p) :
        /\ failed' = [failed EXCEPT ![p] = IF r.ok THEN @ ELSE "read"]
        /\ IF r.ok
           THEN /\ data' = [data EXCEPT ![p] = r.bytes]
                /\ streams' = [streams EXCEPT ![Data(in[p])].drained = TRUE]
                /\ pc' = [pc EXCEPT ![p] = "ffmpeg"]
                /\ err' = err
           ELSE /\ err' = [err EXCEPT ![p] = Errorf("reading input", "io")]
                /\ pc' = [pc EXCEPT ![p] = "returned"]
                /\ UNCHANGED <<data, streams>>
    /\ UNCHANGED <<todo, starts, sends, in, outBuf, text, ctxErr, elapsed, resultsCh, received,
                   cancelled, placed, backendCalls, cancelSeen>>
    /\ UNCHANGED appVars

\* if err := cmd.Run(); err != nil { return ... }: where Process goes next
AfterFfmpegIgnoringError(ok) == "ctx"

AfterFfmpeg(ok) == IF ok THEN "ctx" ELSE "returned"

\* cmd.Run() of ffmpeg on data: it fills outBuf, or fails and Process returns
RunFfmpeg(p) ==
    /\ pc[p] = "ffmpeg"
    /\ \E ok \in BOOLEAN :
        /\ outBuf' = [outBuf EXCEPT ![p] = IF ok THEN Transcode(data[p]) ELSE @]
        /\ failed' = [failed EXCEPT ![p] = IF ok THEN @ ELSE "ffmpeg"]
        /\ IF AfterFfmpeg(ok) = "ctx"
           THEN /\ pc' = [pc EXCEPT ![p] = "ctx"]
                /\ UNCHANGED <<err, streams>>
           ELSE /\ err' = [err EXCEPT ![p] = Errorf("ffmpeg failed", "exit")]
                /\ pc' = [pc EXCEPT ![p] = "returned"]
                /\ streams' = RunDefers(p)
    /\ UNCHANGED <<todo, starts, sends, in, data, text, ctxErr, elapsed, resultsCh, received,
                   cancelled, placed, backendCalls, cancelSeen>>
    /\ UNCHANGED appVars

\* ctx, cancel := context.WithTimeout(ctx, 5*time.Minute), then the call of
\* s.whisperClient.TranscribeAudio(ctx, ...) starts
StartTranscribe(p) ==
    /\ pc[p] = "ctx"
    /\ ctxErr' = [ctxErr EXCEPT ![p] =
                    IF TimeoutCtxParent = "caller" /\ cancelled THEN "canceled" ELSE "none"]
    /\ elapsed' = [elapsed EXCEPT ![p] = 0]
    /\ backendCalls' = [backendCalls EXCEPT ![p] = @ + 1]
    /\ pc' = [pc EXCEPT ![p] = "transcribe"]
    /\ UNCHANGED <<todo, starts, sends, in, data, outBuf, text, err, streams, resultsCh, received,
                   cancelled, placed, failed, cancelSeen>>
    /\ UNCHANGED appVars

\* TranscribeAudio returns: the error of a done context, a failure of its
\* own, or the transcript; on an error Process returns it wrapped
BackendReturn(p) ==
    /\ pc[p] = "transcribe"
    /\ \E cause \in IF ctxErr[p] # "none" THEN {ctxErr[p]} ELSE {"nil", "backend"} :
        /\ failed' = [failed EXCEPT ![p] = IF cause = "nil" THEN @ ELSE "transcribe"]
        /\ IF cause = "nil"
           THEN /\ text' = [text EXCEPT ![p] = Transcript(outBuf[p], in[p].outputType)]
                /\ pc' = [pc EXCEPT ![p] = "publish"]
                /\ UNCHANGED <<err, streams>>
           ELSE /\ err' = [err EXCEPT ![p] = Errorf("transcription failed", cause)]
                /\ pc' = [pc EXCEPT ![p] = "returned"]
                /\ streams' = RunDefers(p)
                /\ text' = text
    /\ elapsed' = [elapsed EXCEPT ![p] = 0]
    /\ UNCHANGED <<todo, starts, sends, in, data, outBuf, ctxErr, resultsCh, received,
                   cancelled, placed, backendCalls, cancelSeen>>
    /\ UNCHANGED appVars

\* the Output Process builds at lines 96-103
MakeOutputFromSharedText(p) ==
    [Name |-> OutputName(in[p].name, in[p].outputType), Text |-> text[1]]

MakeOutput(p) ==
    [Name |-> OutputName(in[p].name, in[p].outputType), Text |-> text[p]]

\* the send of lines 96-103, as a Process that goes on to return nil without
\* having sent
PublishNothing(p) ==
    /\ pc[p] = "publish"
    /\ pc' = [pc EXCEPT ![p] = "complete"]
    /\ UNCHANGED <<todo, starts, sends, in, data, outBuf, text, err, ctxErr, elapsed,
                   streams, resultsCh, received, cancelled, ghostVars>>
    /\ UNCHANGED appVars

\* a send on a buffered channel takes the place behind what is buffered
ChanSendInFront(ch, v) == <<v>> \o ch

ChanSend(ch, v) == Append(ch, v)

\* the send of line 96 into a buffer that takes whatever is sent
PublishBeyondCapacity(p) ==
    /\ pc[p] = "publish"
    /\ resultsCh' = ChanSend(resultsCh, MakeOutput(p))
    /\ placed' = [placed EXCEPT ![p] = Append(@, MakeOutput(p))]
    /\ sends' = Append(sends, Published(p, MakeOutput(p)))
    /\ pc' = [pc EXCEPT ![p] = "complete"]
    /\ UNCHANGED <<todo, starts, in, data, outBuf, text, err, ctxErr, elapsed, streams,
                   received, cancelled, failed, backendCalls, cancelSeen>>
    /\ UNCHANGED appVars

\* s.resultsCh <- Output{...}: blocks while the buffer is full
Publish(p) ==
    /\ pc[p] = "publish"
    /\ Len(resultsCh) < ChanCap
    /\ resultsCh' = ChanSend(resultsCh, MakeOutput(p))
    /\ placed' = [placed EXCEPT ![p] = Append(@, MakeOutput(p))]
    /\ sends' = Append(sends, Published(p, MakeOutput(p)))
    /\ pc' = [pc EXCEPT ![p] = "complete"]
    /\ UNCHANGED <<todo, starts, in, data, outBuf, text, err, ctxErr, elapsed, streams,
                   received, cancelled, failed, backendCalls, cancelSeen>>
    /\ UNCHANGED appVars

\* the log line after the send, return nil, and the deferred calls
Complete(p) ==
    /\ pc[p] = "complete"
    /\ err' = [err EXCEPT ![p] = Nil]
    /\ streams' = RunDefers(p)
    /\ pc' = [pc EXCEPT ![p] = "returned"]
    /\ UNCHANGED <<todo, starts, sends, in, data, outBuf, text, ctxErr, elapsed, resultsCh,
                   received, cancelled, ghostVars>>
    /\ UNCHANGED appVars

\* a consumer receives from the channel Collect() returns
Receive ==
    /\ resultsCh # <<>>
    /\ received' = Append(received, Head(resultsCh))
    /\ resultsCh' = Tail(resultsCh)
    /\ UNCHANGED <<todo, starts, sends, frameVars, streams, cancelled, ghostVars>>
    /\ UNCHANGED appVars

\* ------------------------------------------------------------ context, time

InFlight(p) == pc[p] = "transcribe" /\ ctxErr[p] = "none"

\* the caller cancels its context (App.cancel): every context derived from
\* it that is not done yet is done with context.Canceled
CancelCtx ==
    /\ cancelled' = TRUE
    /\ ctxErr' = [p \in Procs |->
                    IF InFlight(p) /\ TimeoutCtxParent = "caller"
                    THEN "canceled" ELSE ctxErr[p]]
    /\ cancelSeen' = [p \in Procs |->
                    cancelSeen[p] \/ (InFlight(p) /\ elapsed[p] < TimeoutMinutes)]

\* the caller of Process cancels the context it passed
Cancel ==
    /\ ~cancelled
    /\ CancelCtx
    /\ UNCHANGED <<todo, starts, sends, pc, in, data, outBuf, text, err, elapsed, streams,
                   resultsCh, received, placed, failed, backendCalls>>
    /\ UNCHANGED appVars

\* a minute passes for every backend call in flight; no timer is overdue
Tick ==
    /\ \E p \in Procs : InFlight(p)
    /\ \A p \in Procs : InFlight(p) => elapsed[p] < TimeoutMinutes
    /\ elapsed' = [p \in Procs |-> IF InFlight(p) THEN elapsed[p] + 1 ELSE elapsed[p]]
    /\ UNCHANGED <<todo, starts, sends, pc, in, data, outBuf, text, err, ctxErr, streams,
                   resultsCh, received, cancelled, ghostVars>>
    /\ UNCHANGED appVars

\* the timer of context.WithTimeout fires: the context is done with
\* context.DeadlineExceeded
Deadline(p) ==
    /\ InFlight(p)
    /\ elapsed[p] = TimeoutMinutes
    /\ ctxErr' = [ctxErr EXCEPT ![p] = "deadline"]
    /\ UNCHANGED <<todo, starts, sends, pc, in, data, outBuf, text, err, elapsed, streams,
                   resultsCh, received, cancelled, ghostVars>>
    /\ UNCHANGED appVars

\* ----------------------------------------------------------- specifications

Srt == <<"s", "r", "t">>

\* the name of the file goroutine p submits: "a.a", "aa.a", ...
FileName(p) == [i \in 1..p |-> "a"] \o <<".", "a">>

\* the content of the file called name
Bytes(name) == <<"#">> \o name

PlanInputs(names, formats, bads) ==
    {[name |-> n, outputType |-> f, language |-> "en", bad |-> b, bytes |-> Bytes(n)] :
        n \in names, f \in formats, b \in bads}

InitFrames ==
    /\ pc = [p \in Procs |-> "idle"]
    /\ in = [p \in Procs |-> NoInput]
    /\ data = [p \in Procs |-> <<>>]
    /\ outBuf = [p \in Procs |-> <<>>]
    /\ text = [p \in Procs |-> <<>>]
    /\ err = [p \in Procs |-> Nil]
    /\ ctxErr = [p \in Procs |-> "none"]
    /\ elapsed = [p \in Procs |-> 0]
    /\ resultsCh = <<>>
    /\ received = <<>>
    /\ cancelled = FALSE
    /\ placed = [p \in Procs |-> <<>>]
    /\ failed = [p \in Procs |-> "none"]
    /\ backendCalls = [p \in Procs |-> 0]
    /\ cancelSeen = [p \in Procs |-> FALSE]
    /\ starts = <<>>
    /\ sends = <<>>
    /\ resultsClosed = FALSE
    /\ blog = [p \in Procs |-> <<>>]
    /\ uiPc = "idle"
    /\ uiArg = <<>>
    /\ progressShown = FALSE
    /\ bpc = [p \in Procs |-> "none"]
    /\ bidx = [p \in Procs |-> 0]
    /\ bfiles = [p \in Procs |-> <<>>]
    /\ muReaders = {}
    /\ statusCh = <<>>
    /\ statusClosed = FALSE
    /\ hpc = "recv"
    /\ hstatus = NoStatus
    /\ statusLabel = <<>>
    /\ resultsList = <<>>
    /\ dialogs = 0
    /\ handed = [k \in FileIds |-> 0]

\* no file has been selected yet: selectedFiles as New makes it
NothingSelected ==
    /\ streams = [id \in StreamIds |-> FreshStream(FALSE, <<>>)]
    /\ selectedFiles = <<>>
    /\ nextFile = 0
    /\ fileRows = <<>>
    /\ processVisible = FALSE

\* a credential for the backend
Key == <<"k">>

\* main has found the credential, made the Scriber and the App, and Run has
\* shown the window
AppRunning ==
    /\ apiKey = Key
    /\ appState = "running"

\* every goroutine calls Process once, with a file of its own
Init ==
    /\ InitFrames
    /\ NothingSelected
    /\ AppRunning
    /\ todo \in [Procs -> {<<i>> : i \in PlanInputs({FileName(q) : q \in Procs}, {Srt}, BOOLEAN)}]
    /\ \A p \in Procs : todo[p][1].name = FileName(p)

ProcessStep(p) ==
    \/ ReadInput(p)
    \/ RunFfmpeg(p)
    \/ StartTranscribe(p)
    \/ BackendReturn(p)
    \/ Publish(p)
    \/ Complete(p)

Next ==
    \/ \E p \in Procs : Call(p)
    \/ \E p \in Procs : ProcessStep(p)
    \/ \E p \in Procs : Deadline(p)
    \/ Tick
    \/ Cancel
    \/ Receive

Spec == Init /\ [][Next]_vars

\* one goroutine calls Process for one file more than resultsCh can hold, one
\* call after the other; goroutines are scheduled fairly, timers fire, and
\* nothing is assumed of the consumers of Collect()
SeqCalls == ChanCap + 1

SeqInit ==
    /\ InitFrames
    /\ NothingSelected
    /\ AppRunning
    /\ todo = [p \in Procs |->
                IF p = 1
                THEN [k \in 1..SeqCalls |->
                        CHOOSE i \in PlanInputs({FileName(1)}, {Srt}, {FALSE}) : TRUE]
                ELSE <<>>]

Fairness ==
    /\ \A p \in Procs : WF_vars(Call(p))
    /\ \A p \in Procs : WF_vars(ProcessStep(p))
    /\ \A p \in Procs : WF_vars(Deadline(p))

FairSpec == SeqInit /\ [][Next]_vars /\ Fairness

\* one Process call, for every file name and output type of the enumeration
Txt == <<"t", "x", "t">>

OutTypes == {Srt, Txt}

ShortNames == UNION {[1..n -> Chars] : n \in 1..MaxNameLen}

ExampleNames ==
    { <<"l", "e", "c", "t", "u", "r", "e", ".", "m", "p", "4">>,
      <<"c", "l", "i", "p">>,
      <<"a", ".", "m", "p", "4", ".", "m", "p", "4">> }

AllNames == ShortNames \cup ExampleNames

NameInit ==
    /\ InitFrames
    /\ NothingSelected
    /\ AppRunning
    /\ \E i \in PlanInputs(AllNames, OutTypes, {FALSE}) :
            todo = [p \in Procs |-> IF p = 1 THEN <<i>> ELSE <<>>]

NameSpec == NameInit /\ [][Next]_vars

\* concurrent callers of which the first is a sequential one, as processFiles
\* is: it calls Process for one file and, when that has returned, for the
\* next; every file has its own name and a readable stream
OrderInit ==
    /\ InitFrames
    /\ NothingSelected
    /\ AppRunning
    /\ todo = [p \in Procs |->
                LET plan(q) == CHOOSE i \in PlanInputs({FileName(q)}, {Srt}, {FALSE}) : TRUE
                IN IF p = 1 THEN <<plan(1), plan(NumProcs + 1)>> ELSE <<plan(p)>>]

OrderSpec == OrderInit /\ [][Next]_vars

\* -------------------------------------------------------------- application

libVars == <<todo, starts, sends, frameVars, streams, resultsCh, received, cancelled, ghostVars>>

\* the program runs, its goroutines are scheduled and the event loop delivers
\* events: the window is shown, or Close() was called on it and ShowAndRun
\* has not returned yet
Running == appState \in {"running", "closing"}

Mp4 == <<".", "m", "p", "4">>

\* validExts
ValidExts ==
    { Mp4, <<".", "m", "p", "3">>, <<".", "w", "a", "v">>,
      <<".", "w", "e", "b", "m">>, <<".", "a", "v", "i">> }

\* the files the user can pick in the file dialog
DiskFiles == { <<"a">> \o Mp4, <<"c", ".", "t", "x", "t">> }

\* App.mu: Lock() waits for the readers to leave, and an announced writer
\* holds new readers back; every write-locked section runs without blocking
WriterPending == hpc = "lock" \/ uiPc \in {"selectLock", "removeLock", "updateLock"}

CanLock == muReaders = {}

CanRLock == ~WriterPending

\* a send on components.statusCh can proceed: there is room, or the channel
\* is closed (and the send panics)
CanSendStatus == statusClosed \/ Len(statusCh) < StatusCap

\* an unrecovered panic ends the program; msg is the runtime's message
Panic(msg) ==
    /\ appState' = msg
    /\ UNCHANGED <<libVars, fixedVars, uiVars, batchVars, statusVars>>

\* the file-open dialog's callback up to a.mu.Lock(): the reader is there,
\* the extension is valid, the file is copied into a buffer
SelectFile(name) ==
    /\ Running /\ uiPc = "idle"
    /\ nextFile < MaxFiles
    /\ Ext(name) \in ValidExts
    /\ uiArg' = [name |-> name, language |-> "en", outputType |-> Srt,
                 data |-> <<"file", nextFile + 1>>]
    /\ streams' = [streams EXCEPT ![<<"file", nextFile + 1>>] =
                        FreshStream(FALSE, Bytes(name))]
    /\ nextFile' = nextFile + 1
    /\ uiPc' = "selectLock"
    /\ UNCHANGED <<todo, starts, sends, frameVars, resultsCh, received, cancelled, ghostVars>>
    /\ UNCHANGED <<appState, fixedVars, selectedFiles, fileRows, processVisible, progressShown,
                   batchVars, statusVars>>

\* a.mu.Lock(); a.selectedFiles = append(...); a.mu.Unlock()
SelectAppend ==
    /\ Running /\ uiPc = "selectLock"
    /\ CanLock
    /\ selectedFiles' = Append(selectedFiles, uiArg)
    /\ uiArg' = <<>>
    /\ uiPc' = "updateLock"
    /\ UNCHANGED <<libVars, appState, fixedVars, nextFile, fileRows, processVisible, progressShown,
                   batchVars, statusVars>>

\* updateFileList
UpdateFileList ==
    /\ Running /\ uiPc = "updateLock"
    /\ CanLock
    /\ fileRows' = [i \in DOMAIN selectedFiles |-> selectedFiles[i].name]
    /\ processVisible' = (Len(selectedFiles) > 0)
    /\ uiPc' = "idle"
    /\ UNCHANGED <<libVars, appState, fixedVars, uiArg, selectedFiles, nextFile, progressShown,
                   batchVars, statusVars>>

\* the delete button of a file row: removeFile(f.name) up to a.mu.Lock()
TapRemove(name) ==
    /\ Running /\ uiPc = "idle"
    /\ \E i \in DOMAIN fileRows : fileRows[i] = name
    /\ uiArg' = name
    /\ uiPc' = "removeLock"
    /\ UNCHANGED <<libVars, appState, fixedVars, selectedFiles, nextFile, fileRows, processVisible,
                   progressShown, batchVars, statusVars>>

\* removeFile: slices.DeleteFunc under the write lock, then updateFileList
RemoveFile ==
    /\ Running /\ uiPc = "removeLock"
    /\ CanLock
    /\ selectedFiles' = SelectSeq(selectedFiles, LAMBDA v : v.name # uiArg)
    /\ uiArg' = <<>>
    /\ uiPc' = "updateLock"
    /\ UNCHANGED <<libVars, appState, fixedVars, nextFile, fileRows, processVisible, progressShown,
                   batchVars, statusVars>>

\* processBtn.OnTapped: show the progress widgets, go a.processFiles()
TapProcess ==
    /\ Running /\ uiPc = "idle"
    /\ processVisible
    /\ \E b \in Procs :
        /\ bpc[b] = "none"
        /\ \A c \in Procs : bpc[c] = "none" => b <= c
        /\ bpc' = [bpc EXCEPT ![b] = "rlock"]
    /\ progressShown' = TRUE
    /\ UNCHANGED <<libVars, appState, fixedVars, uiPc, uiArg, selectedFiles, nextFile,
                   fileRows, processVisible, bidx, bfiles, muReaders, handed, blog,
                   statusVars>>

\* processFiles: a.mu.RLock() and the start of the range loop
RLock(b) ==
    /\ Running /\ bpc[b] = "rlock"
    /\ CanRLock
    /\ muReaders' = muReaders \cup {b}
    /\ bfiles' = [bfiles EXCEPT ![b] = selectedFiles]
    /\ bidx' = [bidx EXCEPT ![b] = 1]
    /\ bpc' = [bpc EXCEPT ![b] = "loop"]
    /\ UNCHANGED <<libVars, appState, fixedVars, uiVars, handed, blog, statusVars>>

\* processFiles: the next file of the loop, or past the last one
\* progressBar.Hide() and the deferred a.mu.RUnlock()
Loop(b) ==
    /\ Running /\ bpc[b] = "loop"
    /\ IF bidx[b] <= Len(bfiles[b])
       THEN /\ bpc' = [bpc EXCEPT ![b] = "sendProcessing"]
            /\ UNCHANGED <<muReaders, progressShown>>
       ELSE /\ bpc' = [bpc EXCEPT ![b] = "done"]
            /\ muReaders' = muReaders \ {b}
            /\ progressShown' = FALSE
    /\ UNCHANGED <<libVars, appState, fixedVars, uiPc, uiArg, selectedFiles, nextFile,
                   fileRows, processVisible, bidx, bfiles, handed, blog, statusVars>>

\* the &scriberInput{...} processFiles builds for a file
ScriberInput(file) ==
    [name |-> file.name, outputType |-> file.outputType,
     language |-> file.language, data |-> file.data]

\* processFiles: statusCh <- "processing", then the call of scriberSvc.Process
SendProcessing(b) ==
    /\ Running /\ bpc[b] = "sendProcessing"
    /\ CanSendStatus
    /\ IF statusClosed THEN Panic("panic: send on closed channel")
       ELSE LET file == bfiles[b][bidx[b]] IN
            /\ statusCh' = Append(statusCh,
                    [filename |-> file.name, stage |-> "processing", err |-> Nil])
            /\ Enter(b, ScriberInput(file))
            /\ handed' = [handed EXCEPT ![file.data[2]] = @ + 1]
            /\ blog' = [blog EXCEPT ![b] = @ \o
                    << BatchEvent("processing", bidx[b], Nil, FALSE),
                       BatchEvent("Process", bidx[b], Nil, FALSE) >>]
            /\ bpc' = [bpc EXCEPT ![b] = "process"]
            /\ UNCHANGED <<todo, sends, streams, resultsCh, received, cancelled>>
            /\ UNCHANGED <<appState, fixedVars, uiVars, bidx, bfiles, muReaders,
                           statusClosed, hpc, hstatus, statusLabel, resultsList, dialogs>>

\* the status processFiles sends for a file once Process has returned e
ResultStatusAlwaysCompleted(file, e) ==
    [filename |-> file.name, stage |-> "completed", err |-> Nil]

ResultStatus(file, e) ==
    IF e # Nil
    THEN [filename |-> file.name, stage |-> "failed", err |-> e]
    ELSE [filename |-> file.name, stage |-> "completed", err |-> Nil]

\* the index the range loop goes on with after the file at bidx[b], whatever
\* Process returned for it
NextIndexStopOnError(b) ==
    IF err[b] # Nil THEN Len(bfiles[b]) + 1 ELSE bidx[b] + 1

NextIndex(b) == bidx[b] + 1

\* processFiles: Process has returned; statusCh <- "failed" with the error
\* or "completed", and on to the next file
SendResult(b) ==
    /\ Running /\ bpc[b] = "process" /\ pc[b] = "returned"
    /\ CanSendStatus
    /\ IF statusClosed THEN Panic("panic: send on closed channel")
       ELSE LET file == bfiles[b][bidx[b]]
                status == ResultStatus(file, err[b])
            IN
            /\ statusCh' = Append(statusCh, status)
            /\ blog' = [blog EXCEPT ![b] = @ \o
                    << BatchEvent("return", bidx[b], err[b], placed[b] # <<>>),
                       BatchEvent(status.stage, bidx[b], status.err, FALSE) >>]
            /\ bidx' = [bidx EXCEPT ![b] = NextIndex(b)]
            /\ bpc' = [bpc EXCEPT ![b] = "loop"]
            /\ Leave(b)
            /\ UNCHANGED <<todo, starts, sends, streams, resultsCh, received, cancelled>>
            /\ UNCHANGED <<appState, fixedVars, uiVars, bfiles, muReaders, handed,
                           statusClosed, hpc, hstatus, statusLabel, resultsList, dialogs>>

\* handleStatus: the range loop receives a status, or ends on the closed and
\* drained channel
HandleStatus ==
    /\ Running /\ hpc = "recv"
    /\ IF statusCh # <<>>
       THEN /\ hstatus' = Head(statusCh)
            /\ statusCh' = Tail(statusCh)
            /\ hpc' = "lock"
       ELSE /\ statusClosed
            /\ hpc' = "done"
            /\ UNCHANGED <<hstatus, statusCh>>
    /\ UNCHANGED <<libVars, appState, fixedVars, uiVars, batchVars, statusClosed, statusLabel,
                   resultsList, dialogs>>

\* updateStatus under the write lock
UpdateStatus ==
    /\ Running /\ hpc = "lock"
    /\ CanLock
    /\ IF hstatus.err # Nil
       THEN /\ dialogs' = dialogs + 1
            /\ UNCHANGED <<statusLabel, resultsList>>
       ELSE /\ statusLabel' = <<hstatus.filename, hstatus.stage>>
            /\ resultsList' = IF hstatus.stage = "completed"
                              THEN Append(resultsList, hstatus.filename)
                              ELSE resultsList
            /\ dialogs' = dialogs
    /\ hpc' = "recv"
    /\ hstatus' = NoStatus
    /\ UNCHANGED <<libVars, appState, fixedVars, uiVars, batchVars, statusCh, statusClosed>>

\* the first statement of both shutdown handlers: a.cancel()
ShutdownCancel(handler) ==
    /\ Running /\ uiPc = "idle"
    /\ CancelCtx
    /\ uiArg' = handler
    /\ uiPc' = "closeStatusCh"
    /\ UNCHANGED <<todo, starts, sends, pc, in, data, outBuf, text, err, elapsed, streams,
                   resultsCh, received, placed, failed, backendCalls>>
    /\ UNCHANGED <<appState, fixedVars, selectedFiles, nextFile, fileRows, processVisible,
                   progressShown, batchVars, statusVars>>

\* window.SetCloseIntercept's handler
CloseIntercept == ShutdownCancel(<<"close intercept">>)

\* the typed-key handler, for fyne.KeyEscape
EscapeKey == ShutdownCancel(<<"escape key">>)

\* close(a.components.statusCh)
CloseStatusCh ==
    /\ Running /\ uiPc = "closeStatusCh"
    /\ IF statusClosed THEN Panic("panic: close of closed channel")
       ELSE /\ statusClosed' = TRUE
            /\ uiPc' = "windowClose"
            /\ UNCHANGED <<libVars, appState, fixedVars, uiArg, selectedFiles, nextFile,
                           fileRows, processVisible, progressShown, batchVars, statusCh,
                           hpc, hstatus, statusLabel, resultsList, dialogs>>

\* a.window.Close(): the main window is marked as closing and the handler
\* returns; events already delivered to the window are still handled
WindowClose ==
    /\ Running /\ uiPc = "windowClose"
    /\ appState' = "closing"
    /\ uiPc' = "idle"
    /\ uiArg' = <<>>
    /\ UNCHANGED <<libVars, fixedVars, selectedFiles, nextFile, fileRows, processVisible,
                   progressShown, batchVars, statusVars>>

\* ShowAndRun returns for the closed window, Run and main return, and the
\* program exits
AppQuit ==
    /\ appState = "closing" /\ uiPc = "idle"
    /\ appState' = "exited"
    /\ UNCHANGED <<libVars, fixedVars, uiVars, batchVars, statusVars>>

AppInit ==
    /\ InitFrames
    /\ NothingSelected
    /\ AppRunning
    /\ todo = [p \in Procs |-> <<>>]

AppNext ==
    \/ \E name \in DiskFiles : SelectFile(name)
    \/ SelectAppend
    \/ UpdateFileList
    \/ \E name \in DiskFiles : TapRemove(name)
    \/ RemoveFile
    \/ TapProcess
    \/ \E b \in Procs : RLock(b)
    \/ \E b \in Procs : Loop(b)
    \/ \E b \in Procs : SendProcessing(b)
    \/ \E b \in Procs : SendResult(b)
    \/ \E p \in Procs : Running /\ ProcessStep(p)
    \/ \E p \in Procs : Running /\ Deadline(p)
    \/ Running /\ Tick
    \/ HandleStatus
    \/ UpdateStatus
    \/ CloseIntercept
    \/ EscapeKey
    \/ CloseStatusCh
    \/ WindowClose
    \/ AppQuit

AppSpec == AppInit /\ [][AppNext]_vars

\* ---------------------------------------------------------------------- main

\* openAIKey == ""
KeyMissingNever(key) == FALSE

KeyMissing(key) == key = <<>>

\* main: os.Getenv("OPENAI_API_KEY"); without a key logger.Error and
\* os.Exit(1)
MainGetenv ==
    /\ appState = "main"
    /\ appState' = IF KeyMissing(apiKey) THEN "exit 1" ELSE "new"
    /\ UNCHANGED <<libVars, fixedVars, uiVars, batchVars, statusVars>>

\* main: whisperclient.New, scriber.New and app.New make the Scriber with its
\* empty resultsCh and the App with its context and no selected file
MainNew ==
    /\ appState = "new"
    /\ resultsCh' = <<>>
    /\ cancelled' = FALSE
    /\ selectedFiles' = <<>>
    /\ appState' = "constructed"
    /\ UNCHANGED <<todo, starts, sends, frameVars, streams, received, ghostVars>>
    /\ UNCHANGED <<fixedVars, uiPc, uiArg, nextFile, fileRows, processVisible,
                   progressShown, batchVars, statusVars>>

\* App.Run up to window.ShowAndRun(): initComponents makes statusCh, the
\* handlers are set up, and go a.handleStatus()
MainRun ==
    /\ appState = "constructed"
    /\ statusCh' = <<>>
    /\ statusClosed' = FALSE
    /\ hpc' = "recv"
    /\ appState' = "running"
    /\ UNCHANGED <<libVars, fixedVars, uiVars, batchVars, hstatus, statusLabel,
                   resultsList, dialogs>>

\* the program at the entry of main, with or without the credential in its
\* environment
MainInit ==
    /\ InitFrames
    /\ NothingSelected
    /\ todo = [p \in Procs |-> <<>>]
    /\ apiKey \in {<<>>, Key}
    /\ appState = "main"

\* the user taps "Process Files" once
TapProcessOnce ==
    /\ \A b \in Procs : bpc[b] = "none"
    /\ TapProcess

\* a run of the program from main on: files are selected, removed, and
\* processed in one batch
MainNext ==
    \/ MainGetenv
    \/ MainNew
    \/ MainRun
    \/ \E name \in DiskFiles : SelectFile(name)
    \/ SelectAppend
    \/ UpdateFileList
    \/ \E name \in DiskFiles : TapRemove(name)
    \/ RemoveFile
    \/ TapProcessOnce
    \/ \E b \in Procs : RLock(b)
    \/ \E b \in Procs : Loop(b)
    \/ \E b \in Procs : SendProcessing(b)
    \/ \E b \in Procs : SendResult(b)
    \/ \E p \in Procs : Running /\ ProcessStep(p)
    \/ \E p \in Procs : Running /\ Deadline(p)
    \/ Running /\ Tick
    \/ HandleStatus
    \/ UpdateStatus

MainSpec == MainInit /\ [][MainNext]_vars

\* ------------------------------------------------------------------ one batch

\* the k-th file of a selection: "a.mp4", "aa.mp4", ...
BatchFileName(k) == [i \in 1..k |-> "a"] \o Mp4

\* the inputFile the upload button's callback makes for the k-th file
InputFile(k) ==
    [name |-> BatchFileName(k), language |-> "en", outputType |-> Srt,
     data |-> <<"file", k>>]

\* the user has selected n files
Selected(n) ==
    /\ streams = [id \in StreamIds |->
                    IF id[1] = "file" /\ id[2] <= n
                    THEN FreshStream(FALSE, Bytes(BatchFileName(id[2])))
                    ELSE FreshStream(FALSE, <<>>)]
    /\ selectedFiles = [k \in 1..n |-> InputFile(k)]
    /\ nextFile = n
    /\ fileRows = [k \in 1..n |-> BatchFileName(k)]
    /\ processVisible = TRUE

\* the application with some files selected, before the first tap on
\* "Process Files"
BatchInit ==
    /\ InitFrames
    /\ AppRunning
    /\ todo = [p \in Procs |-> <<>>]
    /\ \E n \in 1..MaxBatchFiles : Selected(n)

BatchNext ==
    \/ TapProcessOnce
    \/ \E b \in Procs : RLock(b)
    \/ \E b \in Procs : Loop(b)
    \/ \E b \in Procs : SendProcessing(b)
    \/ \E b \in Procs : SendResult(b)
    \/ \E p \in Procs : Running /\ ProcessStep(p)
    \/ \E p \in Procs : Running /\ Deadline(p)
    \/ Running /\ Tick
    \/ HandleStatus
    \/ UpdateStatus

BatchSpec == BatchInit /\ [][BatchNext]_vars

\* ------------------------------------------------------------------- claims

Range(s) == {s[i] : i \in DOMAIN s}

Occurrences(s, x) == Cardinality({i \in DOMAIN s : s[i] = x})

\* everything ever placed on resultsCh that is still somewhere: buffered, or
\* received by a consumer
AllOutputs == resultsCh \o received

\* C1: every Process call whose read, transcoding and transcription succeeded
\* eventually has exactly one Output on the delivery channel, with the
\* backend's bytes as its Text.
C1_OutputEventuallyReceivable ==
    \A p \in Procs :
        (pc[p] = "publish" /\ failed[p] = "none")
            ~> (/\ Len(placed[p]) = 1
                /\ placed[p][1].Text = text[p]
                /\ placed[p][1] \in Range(resultsCh))

\* C2: whatever step a Process call ended at, its input stream has been
\* closed exactly once when the call has returned.
C2_StreamClosedExactlyOnce ==
    \A p \in Procs :
        pc[p] = "returned" => streams[Data(in[p])].closes = 1

\* C3: a call whose transcoding failed returns a non-nil error, never invokes
\* the backend and never places an Output.
C3_TranscodeFailureAborts ==
    \A p \in Procs :
        failed[p] = "ffmpeg" =>
            /\ pc[p] = "returned"
            /\ err[p] # Nil
            /\ backendCalls[p] = 0
            /\ placed[p] = <<>>

C3_Witness ==
    \E p \in Procs : failed[p] = "ffmpeg" /\ pc[p] = "returned"

\* C4: when the 5-minute timer of a call's backend call has fired (five
\* minutes after that call started), Process returns an error that wraps
\* deadline-exceeded, no other failure carries that cause, and nothing is
\* published.
C4_TimeoutIsDeadlineExceeded ==
    \A p \in Procs :
        /\ ctxErr[p] = "deadline" =>
            /\ pc[p] \in {"transcribe", "returned"}
            /\ pc[p] = "transcribe" => elapsed[p] = TimeoutMinutes
            /\ placed[p] = <<>>
            /\ pc[p] = "returned" => err[p].cause = "deadline"
        /\ (pc[p] = "returned" /\ err[p].cause = "deadline") => ctxErr[p] = "deadline"

C4_Witness ==
    \E p \in Procs : ctxErr[p] = "deadline" /\ pc[p] = "returned"

\* C5: under every interleaving of concurrent calls, a call places at most
\* one Output, a call that returned nil has placed one, every placed Output
\* is buffered or received exactly once in all, nothing else is, and each
\* Output carries the Name and the Text of the call that placed it.
C5_OneOutputPerCallNoneLostNoneMixed ==
    /\ \A p \in Procs :
        /\ Len(placed[p]) <= 1
        /\ (pc[p] = "returned" /\ err[p] = Nil) => Len(placed[p]) = 1
        /\ \A o \in Range(placed[p]) :
            /\ Occurrences(AllOutputs, o) = 1
            /\ o.Name = OutputName(in[p].name, in[p].outputType)
            /\ o.Text = text[p]
    /\ Len(AllOutputs) = Cardinality({q \in Procs : placed[q] # <<>>})

C5_Witness ==
    /\ \A p \in Procs : pc[p] = "returned" /\ err[p] = Nil
    /\ Len(received) = NumProcs
    /\ received[1] = placed[NumProcs][1]

\* C6: a call that has reached the publish step eventually returns, also
\* when resultsCh is full and nobody receives from Collect().
C6_PublishNeverBlocksForever ==
    \A p \in Procs : (pc[p] = "publish") ~> (pc[p] = "returned")

\* C7: when the caller's context is cancelled while the backend call is in
\* flight and before its timeout, the call's context is done at once, no
\* further minute passes for it, Process returns an error wrapping the
\* cancellation, and nothing is published.
C7_CancelReturnsPromptly ==
    \A p \in Procs :
        cancelSeen[p] =>
            /\ ctxErr[p] = "canceled"
            /\ elapsed[p] < TimeoutMinutes
            /\ pc[p] \in {"transcribe", "returned"}
            /\ placed[p] = <<>>
            /\ pc[p] = "returned" => err[p].cause = "canceled"

C7_Witness ==
    \E p \in Procs : cancelSeen[p] /\ pc[p] = "returned"

\* the position of the final dot of the final path element, 0 when none
FinalDot(name) ==
    LET dots == {i \in DOMAIN name :
                    name[i] = "." /\ \A j \in i..Len(name) : name[j] # "/"}
    IN IF dots = {} THEN 0 ELSE CHOOSE i \in dots : \A j \in dots : j <= i

\* a base name (no directory part) that does not start with a dot
BaseName(name) ==
    /\ name # <<>>
    /\ name[1] # "."
    /\ \A i \in DOMAIN name : name[i] # "/"

\* a base name with a stem and an extension: "lecture.mp4", not "clip", "a."
HasExtension(name) ==
    /\ BaseName(name)
    /\ FinalDot(name) > 1
    /\ FinalDot(name) < Len(name)

\* C9: for an input name that has an extension, Output.Name is the name with
\* that final extension replaced by "." + OutputType, the rest unchanged.
C9_FinalExtensionReplaced ==
    \A p \in Procs : \A o \in Range(placed[p]) :
        HasExtension(in[p].name) =>
            o.Name = SubSeq(in[p].name, 1, FinalDot(in[p].name) - 1)
                        \o <<".">> \o in[p].outputType

\* C10: for an input name without an extension, Output.Name is the name
\* followed by "." + OutputType.
C10_NoExtensionAppends ==
    \A p \in Procs : \A o \in Range(placed[p]) :
        (BaseName(in[p].name) /\ FinalDot(in[p].name) = 0) =>
            o.Name = in[p].name \o <<".">> \o in[p].outputType

\* C8: over a whole run of the application no selected file's data stream is
\* handed to Process more than once.
C8_EachInputProcessedOnce ==
    \A k \in FileIds : handed[k] <= 1

\* C11: within one Process call the steps come in the order read, transcode,
\* transcribe, publish, a step starts only when the one before it has
\* succeeded (a failure leads straight to the return of an error), and the
\* call returns nil only from behind the send, its Output placed.
C11_StepsInOrderNilAfterPublish ==
    [][\A p \in Procs :
        /\ pc'[p] # pc[p] =>
            \/ pc[p] \in {"idle", "returned"} /\ pc'[p] = "read"
            \/ pc[p] = "returned" /\ pc'[p] = "idle"
            \/ /\ pc[p] = "read" /\ pc'[p] = "ffmpeg"
               /\ failed'[p] = "none"
               /\ data'[p] = Bytes(in[p].name)
            \/ /\ pc[p] = "ffmpeg" /\ pc'[p] = "ctx"
               /\ failed'[p] = "none"
               /\ outBuf'[p] = Transcode(data[p])
            \/ /\ pc[p] = "ctx" /\ pc'[p] = "transcribe"
               /\ backendCalls'[p] = 1
            \/ /\ pc[p] = "transcribe" /\ pc'[p] = "publish"
               /\ failed'[p] = "none"
               /\ text'[p] = Transcript(outBuf[p], in[p].outputType)
            \/ /\ pc[p] = "publish" /\ pc'[p] = "complete"
               /\ placed'[p] = <<[Name |-> OutputName(in[p].name, in[p].outputType),
                                  Text |-> text[p]]>>
               /\ resultsCh' = Append(resultsCh, placed'[p][1])
            \/ /\ pc[p] = "complete" /\ pc'[p] = "returned"
               /\ err'[p] = Nil
            \/ /\ pc[p] \in {"read", "ffmpeg", "transcribe"} /\ pc'[p] = "returned"
               /\ err'[p] # Nil
               /\ failed'[p] # "none"
               /\ placed'[p] = <<>>
        /\ (pc'[p] = "returned" /\ err'[p] = Nil) =>
            /\ Len(placed'[p]) = 1
            /\ placed'[p][1] \in Range(AllOutputs')
            /\ backendCalls'[p] = 1
      ]_vars

C11_Witness ==
    \E p \in Procs :
        /\ pc[p] = "returned" /\ err[p] = Nil
        /\ data[p] = Bytes(in[p].name)
        /\ outBuf[p] = Transcode(data[p])
        /\ text[p] = Transcript(outBuf[p], in[p].outputType)
        /\ placed[p] = <<[Name |-> OutputName(in[p].name, in[p].outputType),
                          Text |-> text[p]]>>

\* the entries of a batch's log that are ev events for the file at index k
EventsOf(b, ev, k) ==
    {i \in DOMAIN blog[b] : blog[b][i].ev = ev /\ blog[b][i].file = k}

\* the files a batch is through with, or is at
Reached(b) ==
    {k \in DOMAIN bfiles[b] :
        k < bidx[b] \/ (k = bidx[b] /\ bpc[b] = "process")}

\* C12: in a batch of processFiles, Process is invoked once for every file
\* the loop has reached and never twice, a call that returned an error is
\* followed by exactly one "failed" status carrying that error and by no
\* "completed" one, the loop then goes on with the next file, and the batch
\* ends only behind the last file.
C12_FailureDoesNotAbortNorRetry ==
    \A b \in Procs :
        /\ \A k \in DOMAIN bfiles[b] :
            /\ Cardinality(EventsOf(b, "Process", k)) = (IF k \in Reached(b) THEN 1 ELSE 0)
            /\ Cardinality(EventsOf(b, "return", k)) = (IF k < bidx[b] THEN 1 ELSE 0)
            /\ \A i \in EventsOf(b, "return", k) :
                blog[b][i].err # Nil =>
                    /\ Cardinality(EventsOf(b, "failed", k)) = 1
                    /\ \A j \in EventsOf(b, "failed", k) :
                            j = i + 1 /\ blog[b][j].err = blog[b][i].err
                    /\ EventsOf(b, "completed", k) = {}
        /\ bpc[b] # "none" => bidx[b] <= Len(bfiles[b]) + 1
        /\ bpc[b] = "done" => bidx[b] = Len(bfiles[b]) + 1

C12_Witness ==
    \E b \in Procs :
        /\ bpc[b] = "done"
        /\ Len(bfiles[b]) >= 3
        /\ \E i \in EventsOf(b, "return", 1) : blog[b][i].err # Nil
        /\ \E i \in EventsOf(b, "return", 2) : blog[b][i].err = Nil
        /\ \E i \in EventsOf(b, "return", 3) : blog[b][i].err # Nil

\* C13: when OPENAI_API_KEY is absent or empty, main gets no further than
\* its exit with status 1: neither the Scriber nor the App is ever made, and
\* no Process call is ever entered.
C13_NoKeyNoStart ==
    apiKey = <<>> =>
        /\ appState \in {"main", "exit 1"}
        /\ starts = <<>>
        /\ \A p \in Procs : pc[p] = "idle" /\ bpc[p] = "none"

C13_Witness ==
    /\ apiKey = <<>>
    /\ appState = "exit 1"

\* the Outputs sent on resultsCh, in the order of the sends
OutputsSent == [i \in DOMAIN sends |-> sends[i].out]

\* the Output names of the files goroutine p has entered Process for, and
\* of the Outputs it has sent, each in order
NamesStarted(p) ==
    LET mine == SelectSeq(starts, LAMBDA e : e.p = p)
    IN [i \in DOMAIN mine |-> OutputName(mine[i].name, Srt)]

NamesSent(p) ==
    LET mine == SelectSeq(sends, LAMBDA e : e.p = p)
    IN [i \in DOMAIN mine |-> mine[i].out.Name]

\* a is b with some entries left out (the entries of b are distinct)
IsSubSeq(a, b) ==
    \E f \in [DOMAIN a -> DOMAIN b] :
        /\ \A i \in DOMAIN a : b[f[i]] = a[i]
        /\ \A i, j \in DOMAIN a : i < j => f[i] < f[j]

\* C14: what has been received from Collect() and what is still buffered
\* is, in this order, what the calls sent in the order of their sends; and
\* the Outputs of a sequential caller are in the order of its files, those
\* of the failed calls left out.
C14_ReceivedInPublishOrder ==
    /\ received \o resultsCh = OutputsSent
    /\ \A p \in Procs : IsSubSeq(NamesSent(p), NamesStarted(p))

\* two Outputs received in the reverse order of the starts of their calls,
\* and both Outputs of the sequential caller received
C14_Witness ==
    /\ \E i, j \in DOMAIN starts, m, n \in DOMAIN received :
        /\ i < j /\ n < m
        /\ starts[i].p # starts[j].p
        /\ received[m].Name = OutputName(starts[i].name, Srt)
        /\ received[n].Name = OutputName(starts[j].name, Srt)
    /\ \E m, n \in DOMAIN received :
        /\ m < n
        /\ <<received[m].Name, received[n].Name>> = NamesStarted(1)

\* C15: resultsCh is open and holds at most 10 Outputs in every state; it
\* changes only by the send of a call whose read, transcoding and
\* transcription succeeded, which appends that call's Output, or by a
\* consumer's receive, which takes its first Output while no call moves.
C15_ChannelOpenBoundedSendReceive ==
    [][/\ ~resultsClosed /\ ~resultsClosed'
       /\ Len(resultsCh) <= ChanCap /\ Len(resultsCh') <= ChanCap
       /\ resultsCh' # resultsCh =>
            \/ \E p \in Procs :
                /\ pc[p] = "publish" /\ pc'[p] = "complete"
                /\ failed[p] = "none" /\ backendCalls[p] = 1
                /\ resultsCh' = Append(resultsCh,
                        [Name |-> OutputName(in[p].name, in[p].outputType),
                         Text |-> text[p]])
                /\ received' = received
            \/ /\ resultsCh # <<>>
               /\ resultsCh' = Tail(resultsCh)
               /\ received' = Append(received, Head(resultsCh))
               /\ pc' = pc
      ]_vars

C15_Witness ==
    /\ Len(resultsCh) = ChanCap
    /\ received # <<>>
    /\ ~resultsClosed

\* processFiles b holds the read lock and stands at a send on statusCh that
\* cannot proceed: only a receive of handleStatus makes room
WaitsToSend(b) ==
    /\ b \in muReaders
    /\ \/ bpc[b] = "sendProcessing"
       \/ bpc[b] = "process" /\ pc[b] = "returned"
    /\ ~CanSendStatus

\* handleStatus stands at the a.mu.Lock() of updateStatus, which the read
\* lock of a batch holds back: only the end of that batch releases it
WaitsForLock == hpc = "lock" /\ ~CanLock

\* C16: processFiles and handleStatus never wait on each other: there is no
\* state in which a batch, holding the read lock, waits for room in statusCh
\* while handleStatus waits for the write lock.
C16_BatchNeverDeadlocks ==
    ~ \E b \in Procs : WaitsToSend(b) /\ WaitsForLock

\* C17: processFiles never sends on statusCh once a shutdown handler has
\* closed it: the program never ends in the panic of such a send.
C17_NoSendOnClosedStatusCh ==
    appState # "panic: send on closed channel"

\* C18: the shutdown handlers never close statusCh a second time: the
\* program never ends in the panic of a close of the closed channel.
C18_StatusChClosedAtMostOnce ==
    appState # "panic: close of closed channel"

IsStatus(e) == e.ev \in {"processing", "completed", "failed"}

\* the statuses batch b has sent, in the order of the sends
StatusesSent(b) == SelectSeq(blog[b], IsStatus)

\* C19: the statuses a batch sends are, file after file of its loop, a
\* "processing" status and then one terminal status, two for every file the
\* loop is through with and one for the file Process is running for;
\* "completed" comes right after Process returned nil, its Output sent, and
\* "failed" right after Process returned an error, which the status
\* carries; and statusCh holds the last of these statuses, in this order.
C19_ProcessingThenOneTerminalStatus ==
    \A b \in Procs :
        LET st == StatusesSent(b) IN
        /\ \A i \in DOMAIN st :
            /\ st[i].file = (i + 1) \div 2
            /\ st[i].ev = "processing" <=> i % 2 = 1
        /\ bpc[b] \in {"loop", "sendProcessing", "process", "done"} =>
            Len(st) = 2 * (bidx[b] - 1) + (IF bpc[b] = "process" THEN 1 ELSE 0)
        /\ \A j \in DOMAIN blog[b] :
            /\ blog[b][j].ev \in {"completed", "failed"} =>
                /\ j > 1
                /\ blog[b][j - 1].ev = "return"
                /\ blog[b][j - 1].file = blog[b][j].file
                /\ blog[b][j].err = blog[b][j - 1].err
                /\ blog[b][j].ev = "completed" <=>
                        (blog[b][j - 1].err = Nil /\ blog[b][j - 1].published)
                /\ blog[b][j].ev = "failed" <=>
                        (blog[b][j - 1].err # Nil /\ ~blog[b][j - 1].published)
            /\ blog[b][j].ev = "processing" =>
                /\ j < Len(blog[b])
                /\ blog[b][j + 1].ev = "Process"
                /\ blog[b][j + 1].file = blog[b][j].file
        /\ bpc[b] # "none" =>
            /\ Len(statusCh) <= Len(st)
            /\ \A i \in DOMAIN statusCh :
                LET e == st[Len(st) - Len(statusCh) + i] IN
                statusCh[i] = [filename |-> bfiles[b][e.file].name,
                               stage |-> e.ev, err |-> e.err]

C19_Witness ==
    \E b \in Procs :
        /\ bpc[b] = "done"
        /\ \E i, j \in DOMAIN blog[b] :
            /\ blog[b][i].ev = "completed"
            /\ blog[b][j].ev = "failed"
            /\ blog[b][i].file + 1 = blog[b][j].file

====
